---- MODULE Spec2Model ----
(***************************************************************************)
(* pbm2brundlefab: conversion of a raw PBM (P4) bitmap into a G-code like  *)
(* command stream for a 12-jet ink sprayer.                                *)
(*                                                                         *)
(* Spec    : main() of pbm2brundlefab.c, one step per loop iteration.      *)
(* SpecB64 : base64_emit() of pbm2brundlefab.c, one step per payload byte. *)
(*                                                                         *)
(* Coordinates are printed by the program as floats; the model keeps the   *)
(* integer factor that multiplies MM_PER_ROW (3.15, slow axis X) or        *)
(* mm_per_col = MM_PER_ROW / toolbits (fast axis Y).                       *)
(***************************************************************************)
EXTENDS Integers, Sequences, FiniteSets

(* ------------------------------ bounds -------------------------------- *)
MaxWidth  == 9      \* largest bitmap width x read from the header
MaxHeight == 25     \* largest bitmap height y read from the header
MaxDark   == 2      \* rows of the bitmap that may hold a dark pixel
MaxBytes  == 4      \* largest base64 payload length

(* ------------------------- program constants -------------------------- *)
toolbits == 12                \* int toolbits = 12
EXIT_SUCCESS == "EXIT_SUCCESS"
EXIT_FAILURE == "EXIT_FAILURE"
RUNNING == "running"          \* main() has not returned yet (no exit status)

(* ---------------------------- input values ---------------------------- *)
\* Values a row byte of the bitmap takes in the model.
PbmBytes == {0, 160}                     \* 0x00 0xA0
\* Offsets within a band of the rows that may hold a dark pixel.
InkOffsets == {0, 1, 5, toolbits - 1}
\* Widths and heights a header declares in the model.
Widths  == {0, 1, 3, MaxWidth}
Heights == {0, 1, toolbits - 1, toolbits, toolbits + 1, MaxHeight}
\* Values an entry of the freshly malloc'ed toolmask may hold.
UninitWords == {0, 32773}                \* 0x0000 0x8005
\* Results of fscanf("P%d\n%d %d\n") and the parsed type.
ScanResults == {-1, 0, 1, 2, 3}           \* EOF, 0..3 items assigned
PbmTypes == {1, 4, 5}
\* Payload byte values for base64_emit.
PayloadBytes == {0, 255, 77, 251}        \* 0x00 0xFF 0x4D 0xFB

VARIABLES
  pc,        \* position of main: "header", "rows", "end", "done"
  status,    \* exit status of main, RUNNING until it returns
  rc,        \* int rc: result of the last fscanf / fread
  type,      \* int type
  x,         \* int x: bitmap width
  y,         \* int y: bitmap height
  i,         \* int i: row loop counter
  toolmask,  \* uint16_t toolmask[x], indexed 0..x-1
  out,       \* lines written to stdout
  rows,      \* history: the rows fread so far, in order
  calls,     \* history: the calls of emit_toolmask so far, in order
  bandFirst, \* history: index of the first row of the band being accumulated
  bandStart, \* history: toolmask as it was when the band began
  b_byte,    \* base64_emit: const uint8_t *byte, indexed 0..bytes-1
  b_bytes,   \* base64_emit: int bytes
  b_i,       \* base64_emit: int i
  b_buff,    \* base64_emit: uint16_t buff
  b_bit,     \* base64_emit: int bit
  b_out,     \* base64_emit: characters written, as ASCII codes
  b_pc       \* base64_emit: "idle", "loop", "tail", "done"

mainVars == <<pc, status, rc, type, x, y, i, toolmask, out, rows, calls,
              bandFirst, bandStart>>
b64Vars  == <<b_byte, b_bytes, b_i, b_buff, b_bit, b_out, b_pc>>
vars     == <<mainVars, b64Vars>>

(* ------------------------------ helpers ------------------------------- *)
\* 1 << n
Pow2(n) == 2 ^ n

\* v & (1 << k) is non-zero
TestBit(v, k) == (v \div Pow2(k)) % 2 = 1

\* v |= (1 << k)
OrBit(v, k) == IF TestBit(v, k) THEN v ELSE v + Pow2(k)

Last(s) == s[Len(s)]

(* --------------------------- emit_toolmask ---------------------------- *)
\* for (i = 0; i < width; i++) if (toolmask[i]) break;   -- value of i after
FirstNonZero(tm, width) ==
  IF \E j \in 0..(width - 1) : tm[j] # 0
  THEN CHOOSE j \in 0..(width - 1) :
         tm[j] # 0 /\ \A k \in 0..(j - 1) : tm[k] = 0
  ELSE width

\* variant: the row count (line + 1) is divided instead of the row index
SlowAxisOfRowCount(line, tbits) == (line + 1) \div tbits

\* (line / toolbits) * MM_PER_ROW : the integer factor of MM_PER_ROW
SlowAxis(line, tbits) == line \div tbits

\* (origin + i - 1) * mm_per_col : the integer factor of mm_per_col
SprayEnd(origin, col) == origin + col - 1

\* toolmask[origin] != toolmask[i] || (i == width-1)
RunBreak(tm, origin, col, width) == tm[origin] # tm[col] \/ col = width - 1

\* the loop  for (i = origin + 1; i < width; i++) { ... }
RECURSIVE EmitRuns(_, _, _, _)
EmitRuns(tm, width, origin, col) ==
  IF col >= width THEN <<>>
  ELSE IF RunBreak(tm, origin, col, width)
       THEN << [op |-> "T1", P |-> tm[origin]],
               [op |-> "G1", Y |-> SprayEnd(origin, col)] >>
            \o EmitRuns(tm, width, col, col + 1)
       ELSE EmitRuns(tm, width, origin, col + 1)

\* The lines emit_toolmask writes to out.
emit_toolmask(tm, tbits, line, width) ==
  LET origin == FirstNonZero(tm, width) IN
  IF origin = width THEN <<>>
  ELSE << [op |-> "T0"],
          [op |-> "G0", X |-> SlowAxis(line, tbits), Y |-> origin,
           line |-> line] >>
       \o EmitRuns(tm, width, origin, origin + 1)

(* -------------------------------- main -------------------------------- *)
\* stride = (x + 7) / 8
Stride(w) == (w + 7) \div 8

\* rc != 3 || type != 4
HeaderBad(r, t) == r # 3 \/ t # 4

\* variant: only an empty read is taken as an error
ShortReadOnlyEmpty(r, stride) == r = 0 /\ stride > 0

\* rc != stride
ShortRead(r, stride) == r # stride

\* variant: pixels taken LSB-first, c & (1 << (j & 7))
PixelDarkLsbFirst(pbm, j) == TestBit(pbm[j \div 8], j % 8)

\* c = pbm[j>>3]; c & (1 << (7 - (j & 7)))
PixelDark(pbm, j) == TestBit(pbm[j \div 8], 7 - (j % 8))

\* bit = i % toolbits; for (j...) if (dark) toolmask[j] |= (1 << bit);
Accumulate(tm, pbm, row, width) ==
  [j \in 0..(width - 1) |->
     IF PixelDark(pbm, j) THEN OrBit(tm[j], row % toolbits) ELSE tm[j]]

\* bit == (toolbits - 1)
BandFull(row) == row % toolbits = toolbits - 1

\* (i % toolbits) != (toolbits - 1), evaluated after the loop
FlushAtEnd(row) == row % toolbits # toolbits - 1

\* memset(toolmask, 0, sizeof(toolmask[0]) * x)
Cleared(width) == [j \in 0..(width - 1) |-> 0]

\* malloc(sizeof(toolmask[0]) * x): the contents are indeterminate
Malloced(width) == {[j \in 0..(width - 1) |-> w] : w \in UninitWords}

\* The record kept of one call emit_toolmask(out, toolmask, toolbits, line, x).
\* n is the number of rows accumulated into the band when it is handed over.
Call(tm, line, atEnd) ==
  [mask |-> tm, line |-> line, width |-> x, atEnd |-> atEnd,
   first |-> bandFirst, start |-> bandStart,
   n |-> (IF atEnd THEN Len(rows) ELSE Len(rows) + 1) - bandFirst,
   lines |-> emit_toolmask(tm, toolbits, line, x)]

IsDarkRow(pbm) == \E k \in DOMAIN pbm : pbm[k] # 0
DarkRows == Cardinality({k \in 1..Len(rows) : IsDarkRow(rows[k])})

Init ==
  /\ pc = "header" /\ status = RUNNING
  /\ rc = 0 /\ type = 0 /\ x = 0 /\ y = 0 /\ i = 0
  /\ toolmask = <<>> /\ out = <<>>
  /\ rows = <<>> /\ calls = <<>> /\ bandFirst = 0 /\ bandStart = <<>>
  /\ b_byte = <<>> /\ b_bytes = 0 /\ b_i = 0 /\ b_buff = 0 /\ b_bit = 0
  /\ b_out = <<>> /\ b_pc = "idle"

\* fscanf fails or the type is not 4: diagnostic on stderr, EXIT_FAILURE.
HeaderFail ==
  /\ pc = "header"
  /\ \E r \in ScanResults, t \in PbmTypes, w \in Widths, h \in Heights :
       /\ HeaderBad(r, t)
       /\ rc' = r /\ type' = t /\ x' = w /\ y' = h
  /\ pc' = "done" /\ status' = EXIT_FAILURE
  /\ UNCHANGED <<i, toolmask, out, rows, calls, bandFirst, bandStart>>
  /\ UNCHANGED b64Vars

\* Header accepted: stride computed, pbm and toolmask allocated, i = 0.
HeaderOk ==
  /\ pc = "header"
  /\ \E r \in ScanResults, t \in PbmTypes, w \in Widths, h \in Heights :
       /\ ~HeaderBad(r, t)
       /\ rc' = r /\ type' = t /\ x' = w /\ y' = h
       /\ \E tm \in Malloced(w) : toolmask' = tm /\ bandStart' = tm
  /\ i' = 0 /\ bandFirst' = 0
  /\ pc' = "rows"
  /\ UNCHANGED <<status, out, rows, calls>>
  /\ UNCHANGED b64Vars

\* fread returns fewer than stride bytes: diagnostic, EXIT_FAILURE.
RowShort ==
  /\ pc = "rows" /\ i < y
  /\ \E r \in 0..Stride(x) :
       /\ ShortRead(r, Stride(x))
       /\ rc' = r
  /\ pc' = "done" /\ status' = EXIT_FAILURE
  /\ UNCHANGED <<type, x, y, i, toolmask, out, rows, calls, bandFirst, bandStart>>
  /\ UNCHANGED b64Vars

\* One iteration of the row loop with a full row read.
RowRead ==
  /\ pc = "rows" /\ i < y
  /\ \E r \in 0..Stride(x), pbm \in [0..(Stride(x) - 1) -> PbmBytes] :
       /\ ~ShortRead(r, Stride(x))
       /\ IsDarkRow(pbm) => (DarkRows < MaxDark /\ i % toolbits \in InkOffsets)
       /\ rc' = r
       /\ rows' = Append(rows, pbm)
       /\ LET tm == Accumulate(toolmask, pbm, i, x) IN
          IF BandFull(i)
          THEN /\ calls' = Append(calls, Call(tm, i, FALSE))
               /\ out' = out \o emit_toolmask(tm, toolbits, i, x)
               /\ toolmask' = Cleared(x)
               /\ bandFirst' = i + 1
               /\ bandStart' = Cleared(x)
          ELSE /\ toolmask' = tm
               /\ UNCHANGED <<calls, out, bandFirst, bandStart>>
  /\ i' = i + 1
  /\ UNCHANGED <<pc, status, type, x, y>>
  /\ UNCHANGED b64Vars

\* The loop condition i < y fails.
LoopExit ==
  /\ pc = "rows" /\ ~(i < y)
  /\ pc' = "end"
  /\ UNCHANGED <<status, rc, type, x, y, i, toolmask, out, rows, calls,
                 bandFirst, bandStart>>
  /\ UNCHANGED b64Vars

\* After the loop: the conditional last emit_toolmask, fclose, EXIT_SUCCESS.
EndOfInput ==
  /\ pc = "end"
  /\ IF FlushAtEnd(i)
     THEN /\ calls' = Append(calls, Call(toolmask, i, TRUE))
          /\ out' = out \o emit_toolmask(toolmask, toolbits, i, x)
     ELSE UNCHANGED <<calls, out>>
  /\ pc' = "done" /\ status' = EXIT_SUCCESS
  /\ UNCHANGED <<rc, type, x, y, i, toolmask, rows, bandFirst, bandStart>>
  /\ UNCHANGED b64Vars

Next == HeaderFail \/ HeaderOk \/ RowShort \/ RowRead \/ LoopExit \/ EndOfInput

Spec == Init /\ [][Next]_vars

(* ----------------------------- base64_emit ---------------------------- *)
\* uint8_t base64_of(int var): the ASCII code of the digit for var & 0x3f
base64_of(var) ==
  LET v == var % 64 IN
  IF v < 26 THEN v + 65
  ELSE IF v < 52 THEN (v - 26) + 97
  ELSE IF v < 62 THEN (v - 52) + 48
  ELSE IF v = 62 THEN 43
  ELSE 47

\* variant: buff declared uint8_t
ShiftIn8Narrow(buff) == (buff * 256) % 256

\* buff <<= 8 on a uint16_t
ShiftIn8(buff) == (buff * 256) % 65536

\* while (bit >= 6) { fprintf("%c", base64_of(buff >> (bit - 6))); bit -= 6; }
\* the characters written
RECURSIVE DrainChars(_, _)
DrainChars(buff, bit) ==
  IF bit >= 6
  THEN <<base64_of(buff \div Pow2(bit - 6))>> \o DrainChars(buff, bit - 6)
  ELSE <<>>

\* the value of bit when the while loop ends
RECURSIVE DrainBit(_)
DrainBit(bit) == IF bit >= 6 THEN DrainBit(bit - 6) ELSE bit

\* the if / else if after the loop, then fprintf(out, "\n")
TailChars(buff, bit) ==
  (IF bit = 2 THEN <<base64_of(buff * 16), 61, 61>>
   ELSE IF bit = 4 THEN <<base64_of(buff * 4), 61>>
   ELSE <<>>) \o <<10>>

\* All payloads byte[0..bytes-1] of the model.
Payloads == UNION {[0..(n - 1) -> PayloadBytes] : n \in 0..MaxBytes}

InitB64 ==
  /\ pc = "done" /\ status = RUNNING
  /\ rc = 0 /\ type = 0 /\ x = 0 /\ y = 0 /\ i = 0
  /\ toolmask = <<>> /\ out = <<>>
  /\ rows = <<>> /\ calls = <<>> /\ bandFirst = 0 /\ bandStart = <<>>
  /\ b_byte \in Payloads
  /\ b_bytes = Cardinality(DOMAIN b_byte)
  /\ b_i = 0 /\ b_buff = 0 /\ b_bit = 0
  /\ b_out = <<>> /\ b_pc = "loop"

\* One iteration of  for (i = 0; i < bytes; i++)
B64Byte ==
  /\ b_pc = "loop" /\ b_i < b_bytes
  /\ LET buff == ShiftIn8(b_buff) + b_byte[b_i]
         bit  == b_bit + 8
     IN /\ b_out' = b_out \o DrainChars(buff, bit)
        /\ b_buff' = buff
        /\ b_bit' = DrainBit(bit)
  /\ b_i' = b_i + 1
  /\ UNCHANGED <<b_byte, b_bytes, b_pc>>
  /\ UNCHANGED mainVars

\* The loop ends: padding and the line break.
B64Tail ==
  /\ b_pc = "loop" /\ ~(b_i < b_bytes)
  /\ b_out' = b_out \o TailChars(b_buff, b_bit)
  /\ b_pc' = "done"
  /\ UNCHANGED <<b_byte, b_bytes, b_i, b_buff, b_bit>>
  /\ UNCHANGED mainVars

NextB64 == B64Byte \/ B64Tail

SpecB64 == InitB64 /\ [][NextB64]_vars

(***************************************************************************)
(*                              Properties                                 *)
(***************************************************************************)
CallSet == {calls[k] : k \in 1..Len(calls)}
Cols(c) == 0..(c.width - 1)
NonBlank(c) == \E j \in Cols(c) : c.mask[j] # 0
\* the band was accumulated from an all-zero row
StartedZero(c) == \A j \in Cols(c) : c.start[j] = 0
Blank(c) == ~NonBlank(c)
\* index of the first non-zero column of a non-blank row
FirstInk(c) == CHOOSE j \in Cols(c) :
                 c.mask[j] # 0 /\ \A k \in 0..(j - 1) : c.mask[k] = 0
OpCount(ls, op) == Cardinality({k \in 1..Len(ls) : ls[k].op = op})
IsT1(l) == l.op = "T1"
IsG1(l) == l.op = "G1"
\* the pattern-select lines and the motion lines of a call, in order
Patterns(c) == SelectSeq(c.lines, IsT1)
Motions(c) == SelectSeq(c.lines, IsG1)

\* last column of the maximal run of equal values that starts at column from
RunEnd(tm, from, width) ==
  CHOOSE e \in from..(width - 1) :
    /\ \A k \in from..e : tm[k] = tm[from]
    /\ e = width - 1 \/ tm[e + 1] # tm[from]

\* the maximal runs of tm over columns from..width-1, left to right,
\* each as <<value, last column>>
RECURSIVE MaximalRuns(_, _, _)
MaximalRuns(tm, from, width) ==
  IF from >= width THEN <<>>
  ELSE LET e == RunEnd(tm, from, width) IN
       <<[value |-> tm[from], last |-> e]>> \o MaximalRuns(tm, e + 1, width)

\* column j of a row is dark: bit 7 - (j mod 8) of row byte j div 8
DarkAt(row, j) == (row[j \div 8] \div Pow2(7 - (j % 8))) % 2 = 1

CeilDiv(a, b) == (a + b - 1) \div b

\* C1: for every toolmask row of width >= 1 with a non-zero entry, the
\* emitter writes one pattern-select/motion pair per maximal run of equal
\* values from the first non-zero column through the last column, in order,
\* each pattern-select carrying the run's value; the run holding the final
\* column is closed exactly once.  (Stated for the rows accumulated from a
\* zeroed row out of at least one bitmap row.)
C1_OnePairPerMaximalRun ==
  \A c \in CallSet :
    (c.width >= 1 /\ NonBlank(c) /\ StartedZero(c) /\ c.n >= 1) =>
      LET runs == MaximalRuns(c.mask, FirstInk(c), c.width) IN
      /\ Len(Patterns(c)) = Len(runs)
      /\ Len(Motions(c)) = Len(runs)
      /\ \A k \in 1..Len(runs) : Patterns(c)[k].P = runs[k].value

\* C2: when the height is not a multiple of the jet count and all rows were
\* read, the trailing partial band's toolmask row is handed to the emitter
\* exactly once, after the last row, with the bits accumulated; no dark
\* pixel of the trailing band is lost.  (Stated for trailing bands that hold
\* a dark pixel.)
C2_PartialBandFlushed ==
  (/\ status = EXIT_SUCCESS /\ y % toolbits # 0
   /\ \E j \in 0..(x - 1) : \E k \in (bandFirst + 1)..Len(rows) :
        DarkAt(rows[k], j)) =>
    /\ Cardinality({k \in 1..Len(calls) : calls[k].atEnd}) = 1
    /\ Last(calls).atEnd
    /\ Last(calls).n = y % toolbits
    /\ Last(calls).mask = toolmask

\* C3: for every height read without error the toolmask row is handed to
\* the emitter exactly ceil(height / jet_count) times: at fill time for a
\* full band, at end of input only for a short trailing band.
C3_FlushCount ==
  status = EXIT_SUCCESS =>
    /\ Len(calls) = CeilDiv(y, toolbits)
    /\ \A k \in 1..Len(calls) :
         /\ calls[k].first = (k - 1) * toolbits
         /\ calls[k].atEnd <=> (calls[k].n < toolbits)
         /\ calls[k].n >= 1

\* C4: accumulating row i at band offset k = i mod jet_count sets bit k of
\* toolmask[j] for exactly the dark columns j (MSB-first) and leaves every
\* other bit unchanged ...
C4_RowStep ==
  (pc = "rows" /\ Len(rows') = Len(rows) + 1) =>
    LET row == Last(rows')
        k   == i % toolbits
        acc == IF Len(calls') > Len(calls) THEN Last(calls').mask
               ELSE toolmask'
    IN \A j \in 0..(x - 1), b \in 0..15 :
         TestBit(acc[j], b) <=>
           (TestBit(toolmask[j], b) \/ (b = k /\ DarkAt(row, j)))

\* ... so for a band that started from an all-zero row, at flush time bit k
\* of entry j is set iff row k of the band is dark at column j.
C4_FlushedBits ==
  \A c \in CallSet :
    StartedZero(c) =>
      \A j \in Cols(c), b \in 0..15 :
        TestBit(c.mask[j], b) <=>
          (b < c.n /\ DarkAt(rows[c.first + b + 1], j))

\* C4: the two parts together.
C4_Accumulation == [][C4_RowStep]_vars /\ []C4_FlushedBits

C4_Witness ==
  \E c \in CallSet :
    /\ c.width = MaxWidth
    /\ StartedZero(c)
    /\ c.mask[8] # 0 /\ c.mask[2] # 0 /\ c.mask[2] # c.mask[8]

\* C5: the fast-axis factor of the motion line of every emitted run is the
\* index of the run's last column.  (Stated for the rows accumulated from a
\* zeroed row out of at least one bitmap row.)
C5_MotionAtRunEnd ==
  \A c \in CallSet :
    (NonBlank(c) /\ StartedZero(c) /\ c.n >= 1) =>
      LET runs == MaximalRuns(c.mask, FirstInk(c), c.width) IN
      \A k \in 1..Len(Motions(c)) :
        k <= Len(runs) => Motions(c)[k].Y = runs[k].last

\* C6: at the start of every band every entry of the live toolmask row is
\* zero, and every entry handed to the emitter has bits set only below the
\* number of rows accumulated in its band.
C6_BandStartsZero ==
  /\ (pc = "rows" /\ i % toolbits = 0) => \A j \in 0..(x - 1) : toolmask[j] = 0
  /\ \A c \in CallSet : \A j \in Cols(c), b \in 0..15 :
       TestBit(c.mask[j], b) => b < c.n

\* C7: a flushed all-zero row writes no line, a flushed non-blank row writes
\* exactly one tool-select and one positioning line before its runs, and an
\* all-zero bitmap read without error gives an empty command stream.
C7_BlankBandsSilent ==
  /\ \A c \in CallSet : Blank(c) => c.lines = <<>>
  /\ \A c \in CallSet :
       NonBlank(c) => /\ OpCount(c.lines, "T0") = 1
                      /\ OpCount(c.lines, "G0") = 1
                      /\ c.lines[1].op = "T0"
                      /\ c.lines[2].op = "G0"
  /\ (status = EXIT_SUCCESS /\ \A k \in 1..Len(rows) : ~IsDarkRow(rows[k]))
       => out = <<>>

\* C8: for every non-blank band flushed, at fill time or at end of input,
\* the positioning line's slow-axis factor is the band's 0-based index
\* (first row of the band divided by jet_count, rounded down) and its
\* fast-axis factor is the index of the first non-zero column.
C8_Positioning ==
  \A c \in CallSet :
    NonBlank(c) =>
      /\ Len(c.lines) >= 2
      /\ c.lines[2].op = "G0"
      /\ c.lines[2].X = c.first \div toolbits
      /\ c.lines[2].Y = FirstInk(c)

C8_Witness ==
  /\ \E c \in CallSet : ~c.atEnd /\ NonBlank(c) /\ FirstInk(c) > 0
  /\ \E c \in CallSet : c.atEnd /\ NonBlank(c) /\ c.first >= toolbits
                        /\ c.n >= 1

\* C9: a header that is unparsable or not type 4 ends the run with failure
\* and an empty stream; a short read ends the run with failure, writes
\* nothing more and leaves what was written unchanged ...
C9_FailStep ==
  /\ (pc = "header" /\ pc' # "header" /\ (rc' # 3 \/ type' # 4)) =>
       (pc' = "done" /\ status' = EXIT_FAILURE /\ out' = <<>>)
  /\ (pc = "rows" /\ i < y /\ rc' # Stride(x)) =>
       (pc' = "done" /\ status' = EXIT_FAILURE /\ out' = out /\ calls' = calls)
  /\ status' = EXIT_FAILURE => out' = out
  /\ status = EXIT_FAILURE => (out' = out /\ status' = status)

\* ... and a run ends with success only if all height rows were read.
C9_SuccessReadAll ==
  /\ status = EXIT_SUCCESS => (Len(rows) = y /\ i = y)
  /\ (status = EXIT_FAILURE /\ type = 4 /\ pc = "done" /\ toolmask # <<>>)
       => Len(rows) < y

\* C9: the two parts together.
C9_InputDefectsFatal == [][C9_FailStep]_vars /\ []C9_SuccessReadAll

C9_Witness ==
  /\ status = EXIT_FAILURE /\ out # <<>> /\ Len(rows) > toolbits
  /\ rc # Stride(x)

\* --- base64 ---
\* the standard base64 alphabet, as ASCII codes
A64 ==
  <<
     65, 66, 67, 68, 69, 70, 71, 72, 73, 74, 75, 76, 77, 78, 79, 80,
     81, 82, 83, 84, 85, 86, 87, 88, 89, 90, 97, 98, 99, 100, 101, 102,
     103, 104, 105, 106, 107, 108, 109, 110, 111, 112, 113, 114, 115, 116, 117, 118,
     119, 120, 121, 122, 48, 49, 50, 51, 52, 53, 54, 55, 56, 57, 43, 47 >>

A64Set == {A64[k] : k \in 1..64}
Digit(c) == CHOOSE k \in 0..63 : A64[k + 1] = c
Pad == 61

\* standard decoding of one group of four characters
DecodeGroup(g) ==
  LET v == Digit(g[1]) * 262144 + Digit(g[2]) * 4096
           + (IF g[3] = Pad THEN 0 ELSE Digit(g[3]) * 64)
           + (IF g[4] = Pad THEN 0 ELSE Digit(g[4]))
      b1 == v \div 65536
      b2 == (v \div 256) % 256
      b3 == v % 256
  IN IF g[3] = Pad THEN <<b1>>
     ELSE IF g[4] = Pad THEN <<b1, b2>>
     ELSE <<b1, b2, b3>>

RECURSIVE Decode(_)
Decode(text) ==
  IF Len(text) < 4 THEN <<>>
  ELSE DecodeGroup(SubSeq(text, 1, 4)) \o Decode(SubSeq(text, 5, Len(text)))

PadCount(n) == IF n % 3 = 0 THEN 0 ELSE IF n % 3 = 1 THEN 2 ELSE 1
PayloadSeq == [k \in 1..b_bytes |-> b_byte[k - 1]]

\* C10: base64_emit writes 4 * ceil(n / 3) characters of the alphabet and a
\* line break, ending in 0, 2 or 1 '=' for n = 0, 1 or 2 modulo 3; standard
\* decoding gives back the payload; the bits still to be emitted are never
\* dropped from the 16-bit buffer.
C10_Base64RoundTrip ==
  /\ b_pc = "done" =>
       LET len  == Len(b_out) - 1
           text == SubSeq(b_out, 1, len)
           pads == PadCount(b_bytes)
       IN /\ len = 4 * CeilDiv(b_bytes, 3)
          /\ b_out[len + 1] = 10
          /\ \A k \in 1..(len - pads) : text[k] \in A64Set
          /\ \A k \in (len - pads + 1)..len : text[k] = Pad
          /\ Decode(text) = PayloadSeq
  /\ (b_pc = "loop" /\ b_i > 0) =>
       /\ b_bit \in {0, 2, 4}
       /\ b_buff % Pow2(b_bit) = b_byte[b_i - 1] % Pow2(b_bit)
       /\ Len(b_out) = (8 * b_i - b_bit) \div 6

C10_Witness ==
  /\ b_pc = "done" /\ b_bytes = 4
  /\ \E k \in 1..Len(b_out) : b_out[k] = 43
  /\ \E k \in 1..Len(b_out) : b_out[k] = 47

====
